---- MODULE Spec2Model ----
(***************************************************************************)
(* A model of convert_to_csv.py: conversion of capture files to tabular    *)
(* files by a worker pool, the merge of the tabular files, and the         *)
(* dispatch of the transforms.                                             *)
(*                                                                         *)
(* File names are sequences of tokens ("a", " ", ".tdms", ...), so that    *)
(* sanitize_filename and str.replace are computed and not assumed.         *)
(* A table is a record [columns, rows]; a cell is the tuple                *)
(* <<source, row, column>> of the place it was decoded from, so that the   *)
(* rows of different sources are told apart.                               *)
(***************************************************************************)
EXTENDS Integers, Sequences, FiniteSets, TLC

\* Bounds of the model.
MaxFiles == 2    \* entries of the input directory
MaxCols == 2     \* columns of a table
MaxRows == 2     \* rows of a table
MaxLen == 3      \* length of a list handed to merge_csv_files directly
MaxChans == 3    \* length of a channel list handed to perform_transformation directly

VARIABLES
    mode,            \* "dir" | "file" | "invalid": what args.path names
    listing,         \* os.listdir(folder_path) (dir mode), or the one file
    capture,         \* [name -> [ok, cols, rows]]: what TdmsFile.read gives
    should_merge,    \* args.merge
    transform,       \* args.transform
    channels,        \* args.channels (<<>> is None)
    algorithm,       \* args.algorithm (0 is None)
    pc,              \* position of the main thread
    task,            \* [future -> "pending" | "writing" | "ok" | "failed"]
    yielded,         \* futures as_completed has yielded so far
    csv_files,       \* process_folder's csv_files
    fs,              \* output folder: [path -> [content, mtime]]
    clock,           \* file system time
    files,           \* the list merge_csv_files was last called with
    mergeCalls,      \* number of calls of merge_csv_files
    merged_csv_path, \* process_folder's merged_csv_path / the return value
    transformCalls,  \* paths perform_transformation was called with, in order
    artifacts,       \* images saved: <<csv path, channel, tag>>, in order
    notices,         \* channels a not-implemented notice was printed for
    runNo,           \* 1 for the first run of the program, 2 for a rerun
    firstFiles       \* <<the list the first run handed to merge_csv_files>>, if any

vars == <<mode, listing, capture, should_merge, transform, channels, algorithm,
          pc, task, yielded, csv_files, fs, clock, files, mergeCalls,
          merged_csv_path, transformCalls, artifacts, notices, runNo, firstFiles>>

inputs == <<mode, listing, capture, should_merge, transform, channels, algorithm>>

----------------------------------------------------------------------------
\* Values

None == <<"None">>
EmptyStr == <<>>
\* truth value of a path-valued expression (None and '' are false)
Truthy(x) == x # None /\ x # EmptyStr

\* a missing value, and the value decoded at row r, column c of source src
NaN == [src |-> <<>>, r |-> 0, c |-> 0]
Cell(src, r, c) == [src |-> src, r |-> r, c |-> c]

\* 'CH' + str(i)
CH(i) == <<"CH", i>>

----------------------------------------------------------------------------
\* Tabular files and pandas

NoData == [kind |-> "no_data", header |-> <<>>, rows |-> <<>>]
Garbled == [kind |-> "garbled", header |-> <<>>, rows |-> <<>>]
Csv(header, rows) == [kind |-> "csv", header |-> header, rows |-> rows]

\* DataFrame.to_csv(path, index=False): the header line, then one line per
\* row; a frame without columns writes one blank line.
to_csv(df) ==
    IF Len(df.columns) = 0 THEN NoData ELSE Csv(df.columns, df.rows)

\* pd.read_csv(file): a data frame, or the exception raised.
read_csv(content) ==
    CASE content.kind = "no_data" -> [err |-> "EmptyDataError"]
      [] content.kind = "garbled" -> [err |-> "ParserError"]
      [] OTHER -> [err |-> "", columns |-> content.header, rows |-> content.rows]

\* a frame counts as empty only when it has no columns
df_empty_no_columns(df) == Len(df.columns) = 0

\* DataFrame.empty
df_empty(df) == Len(df.columns) = 0 \/ Len(df.rows) = 0

\* the names counted from 1
standardized_columns_from_one(column_count) ==
    [i \in 1..column_count |-> CH(i)]

\* lines 43-45: the positional names given to a table of column_count columns
standardized_columns(column_count) ==
    [i \in 1..column_count |-> CH(i - 1)]

\* lines 33-53, one iteration of the loop: the frame appended to dataframes
\* for one file, or <<>> when the file is skipped (missing, no data,
\* unparsable, or empty).
frame_of(file, disk) ==
    IF file \notin DOMAIN disk THEN <<>>
    ELSE LET df == read_csv(disk[file].content)
         IN  IF df.err # "" THEN <<>>
             ELSE IF df_empty(df) THEN <<>>
             ELSE << [columns |-> standardized_columns(Len(df.columns)),
                      rows |-> df.rows] >>

\* lines 32-53: dataframes after the loop
RECURSIVE read_frames(_, _)
read_frames(paths, disk) ==
    IF paths = <<>> THEN <<>>
    ELSE frame_of(Head(paths), disk) \o read_frames(Tail(paths), disk)

\* the columns of the first frame only
concat_columns_first(dataframes) ==
    IF dataframes = <<>> THEN <<>> ELSE dataframes[1].columns

\* pd.concat: the columns of the result are the union of the frames'
\* columns, in order of first appearance.
RECURSIVE concat_columns(_)
concat_columns(dataframes) ==
    IF dataframes = <<>> THEN <<>>
    ELSE LET acc == concat_columns(SubSeq(dataframes, 1, Len(dataframes) - 1))
             cols == dataframes[Len(dataframes)].columns
         IN  acc \o SelectSeq(cols, LAMBDA c : \A i \in DOMAIN acc : acc[i] # c)

\* the rows of df laid out under the columns cols, NaN where df has no such
\* column
reindex(df, cols) ==
    [r \in 1..Len(df.rows) |->
        [j \in 1..Len(cols) |->
            IF \E i \in DOMAIN df.columns : df.columns[i] = cols[j]
            THEN df.rows[r][CHOOSE i \in DOMAIN df.columns : df.columns[i] = cols[j]]
            ELSE NaN]]

\* each frame put before the ones already taken
RECURSIVE concat_rows_prepend(_, _)
concat_rows_prepend(dataframes, cols) ==
    IF dataframes = <<>> THEN <<>>
    ELSE concat_rows_prepend(Tail(dataframes), cols) \o reindex(Head(dataframes), cols)

\* line 57: the rows of the frames, one frame after the other
RECURSIVE concat_rows(_, _)
concat_rows(dataframes, cols) ==
    IF dataframes = <<>> THEN <<>>
    ELSE reindex(Head(dataframes), cols) \o concat_rows(Tail(dataframes), cols)

\* pd.concat(dataframes, ignore_index=True)
concat(dataframes) ==
    LET cols == concat_columns(dataframes)
    IN  [columns |-> cols, rows |-> concat_rows(dataframes, cols)]

\* os.path.join(output_folder, f"merge_csv_{timestamp}.csv")
merged_filename == <<"merge_csv_", "timestamp", ".csv">>

\* the merged file written whether or not a frame was read
merge_csv_files_unguarded(paths, disk, now) ==
    [ret |-> merged_filename,
     disk |-> [p \in DOMAIN disk \cup {merged_filename} |->
                 IF p = merged_filename
                 THEN [content |-> to_csv(concat(read_frames(paths, disk))), mtime |-> now]
                 ELSE disk[p]]]

\* merge_csv_files(files, output_folder, timestamp): the value returned and
\* the output folder afterwards.
merge_csv_files(paths, disk, now) ==
    LET dataframes == read_frames(paths, disk)
    IN  IF dataframes # <<>>
        THEN [ret |-> merged_filename,
              disk |-> [p \in DOMAIN disk \cup {merged_filename} |->
                          IF p = merged_filename
                          THEN [content |-> to_csv(concat(dataframes)), mtime |-> now]
                          ELSE disk[p]]]
        ELSE [ret |-> None, disk |-> disk]

----------------------------------------------------------------------------
\* File names

\* sanitize_filename, line 17
sanitize_filename(filename) == SelectSeq(filename, LAMBDA t : t # " ")

\* str.replace(old, new): every occurrence is replaced
str_replace(name, old, new) ==
    [i \in DOMAIN name |-> IF name[i] = old THEN new ELSE name[i]]

\* str.lower on a token
lower(t) == IF t = ".TDMS" THEN ".tdms" ELSE t

\* filename.lower().endswith('.tdms'), lines 162 and 207
is_tdms(filename) ==
    Len(filename) > 0 /\ lower(filename[Len(filename)]) = ".tdms"

\* lines 21-23: the path convert_tdms_to_csv writes
csv_path_of(tdms_path) ==
    str_replace(sanitize_filename(tdms_path), ".tdms", ".csv")

\* names an input directory may hold
DirEntries ==
    { <<"a", ".tdms">>, <<"b", ".tdms">>, <<"a", " ", ".tdms">>,
      <<"c", ".TDMS">>, <<"n", ".txt">> }

\* tdms_file.as_dataframe(), line 25: cols channels of rows samples each
as_dataframe(src, cols, rows) ==
    [columns |-> [c \in 1..cols |-> <<"ai", c - 1>>],
     rows |-> [r \in 1..rows |-> [c \in 1..cols |-> Cell(src, r, c)]]]

\* shapes <<columns, rows>> of the tables a capture file decodes to
CaptureShapes == { <<0, 0>>, <<1, 0>>, <<1, 1>>, <<MaxCols, MaxRows>> }

Captures ==
    { [ok |-> FALSE, cols |-> 0, rows |-> 0] } \cup
    { [ok |-> TRUE, cols |-> sh[1], rows |-> sh[2]] : sh \in CaptureShapes }

----------------------------------------------------------------------------
\* Transforms

\* the tag in the name of the image each routine saves (lines 79, 93, 109,
\* 122, 136), by algorithm number (lines 144-153)
Tag(alg) ==
    CASE alg = 1 -> "mel_spectrogram"
      [] alg = 2 -> "stft"
      [] alg = 3 -> "cwt"
      [] alg = 4 -> "wvd"
      [] alg = 5 -> "s_transform"

\* the five routines, lines 69-138: pd.read_csv(csv_file) and df[channel]
\* succeed
routine_ok(csv_file, channel, disk) ==
    /\ csv_file \in DOMAIN disk
    /\ LET df == read_csv(disk[csv_file].content)
       IN  /\ df.err = ""
           /\ \E i \in DOMAIN df.columns : df.columns[i] = channel

NoEffect == [artifacts |-> <<>>, notices |-> <<>>, raised |-> FALSE]

\* the notice of line 155 followed by a return
RECURSIVE perform_transformation_notice_returns(_, _, _, _)
perform_transformation_notice_returns(csv_file, chans, alg, disk) ==
    IF chans = <<>> THEN NoEffect
    ELSE LET channel == Head(chans)
             rest == perform_transformation_notice_returns(csv_file, Tail(chans), alg, disk)
         IN  IF alg \in 1..5
             THEN IF routine_ok(csv_file, channel, disk)
                  THEN [rest EXCEPT !.artifacts =
                            << <<csv_file, channel, Tag(alg)>> >> \o @]
                  ELSE [NoEffect EXCEPT !.raised = TRUE]
             ELSE [NoEffect EXCEPT !.notices = <<channel>>]

\* each routine called inside a try block whose except clause prints and
\* goes on
RECURSIVE perform_transformation_guarded(_, _, _, _)
perform_transformation_guarded(csv_file, chans, alg, disk) ==
    IF chans = <<>> THEN NoEffect
    ELSE LET channel == Head(chans)
             rest == perform_transformation_guarded(csv_file, Tail(chans), alg, disk)
         IN  IF alg \in 1..5
             THEN IF routine_ok(csv_file, channel, disk)
                  THEN [rest EXCEPT !.artifacts =
                            << <<csv_file, channel, Tag(alg)>> >> \o @]
                  ELSE rest
             ELSE [rest EXCEPT !.notices = <<channel>> \o @]

\* perform_transformation, lines 141-155: the images saved, the channels a
\* notice was printed for, and whether an exception left the loop.
RECURSIVE perform_transformation(_, _, _, _)
perform_transformation(csv_file, chans, alg, disk) ==
    IF chans = <<>> THEN NoEffect
    ELSE LET channel == Head(chans)
             rest == perform_transformation(csv_file, Tail(chans), alg, disk)
         IN  IF alg \in 1..5
             THEN IF routine_ok(csv_file, channel, disk)
                  THEN [rest EXCEPT !.artifacts =
                            << <<csv_file, channel, Tag(alg)>> >> \o @]
                  ELSE [NoEffect EXCEPT !.raised = TRUE]
             ELSE [rest EXCEPT !.notices = <<channel>> \o @]

\* the call made once, after the loop over the files
RECURSIVE transform_each_after_loop(_, _, _, _)
transform_each_after_loop(paths, chans, alg, disk) ==
    IF paths = <<>> THEN [calls |-> <<>>, effect |-> NoEffect]
    ELSE [calls |-> <<paths[Len(paths)]>>,
          effect |-> perform_transformation(paths[Len(paths)], chans, alg, disk)]

\* lines 180-181: perform_transformation on each file in turn, until one
\* raises
RECURSIVE transform_each(_, _, _, _)
transform_each(paths, chans, alg, disk) ==
    IF paths = <<>> THEN [calls |-> <<>>, effect |-> NoEffect]
    ELSE LET one == perform_transformation(Head(paths), chans, alg, disk)
             rest == transform_each(Tail(paths), chans, alg, disk)
         IN  IF one.raised
             THEN [calls |-> <<Head(paths)>>, effect |-> one]
             ELSE [calls |-> <<Head(paths)>> \o rest.calls,
                   effect |-> [artifacts |-> one.artifacts \o rest.effect.artifacts,
                               notices |-> one.notices \o rest.effect.notices,
                               raised |-> rest.effect.raised]]

\* lines 176 and 209: transform and channels and algorithm
transform_requested == transform /\ channels # <<>> /\ algorithm # 0

----------------------------------------------------------------------------
\* sorted(csv_files, key=lambda x: os.path.getmtime(x)), line 173: a stable
\* sort
RECURSIVE sorted_by_mtime(_, _)
sorted_by_mtime(paths, disk) ==
    IF paths = <<>> THEN <<>>
    ELSE LET init == sorted_by_mtime(SubSeq(paths, 1, Len(paths) - 1), disk)
             x == paths[Len(paths)]
             k == Cardinality({i \in DOMAIN init : disk[init[i]].mtime <= disk[x].mtime})
         IN  SubSeq(init, 1, k) \o <<x>> \o SubSeq(init, k + 1, Len(init))

----------------------------------------------------------------------------
\* The program: main and process_folder

\* the capture files process_folder submits, lines 160-162
discovered == {filename \in listing : is_tdms(filename)}

\* the --transform, --channels and --algorithm options of a run: each of
\* the three absent in turn, then a supported and an unsupported algorithm on
\* positional channel names, and a supported one on a decoded channel name
Request(t, c, a) == [transform |-> t, channels |-> c, algorithm |-> a]
Requests ==
    { Request(FALSE, <<CH(0), CH(1)>>, 2),
      Request(TRUE, <<>>, 2),
      Request(TRUE, <<CH(0), CH(1)>>, 0),
      Request(TRUE, <<CH(0), CH(1)>>, 2),
      Request(TRUE, <<CH(0), CH(1)>>, 6),
      Request(TRUE, << <<"ai", 0>> >>, 2) }

Init ==
    /\ mode \in {"dir", "file", "missing"}
    /\ listing \in SUBSET DirEntries
    /\ CASE mode = "dir" -> Cardinality(listing) <= MaxFiles
         [] mode = "file" -> Cardinality(listing) = 1
         [] OTHER -> listing = {}
    /\ capture \in [discovered -> Captures]
    /\ should_merge \in BOOLEAN
    /\ \E rq \in Requests :
          /\ transform = rq.transform
          /\ channels = rq.channels
          /\ algorithm = rq.algorithm
    /\ pc = "main"
    /\ task = <<>>
    /\ yielded = {}
    /\ csv_files = <<>>
    /\ fs = <<>>
    /\ clock = 0
    /\ files = <<>>
    /\ mergeCalls = 0
    /\ merged_csv_path = EmptyStr
    /\ transformCalls = <<>>
    /\ artifacts = <<>>
    /\ notices = <<>>
    /\ runNo = 1
    /\ firstFiles = <<>>

\* a file written at path p with the given content at time now
WriteFile(disk, p, content, now) ==
    [q \in DOMAIN disk \cup {p} |->
        IF q = p THEN [content |-> content, mtime |-> now] ELSE disk[q]]

\* main, lines 205-207: the branch taken
Main ==
    /\ pc = "main"
    /\ pc' = CASE mode = "dir" -> "submit"
               [] mode = "file" /\ discovered # {} -> "convert"
               [] OTHER -> "done"
    /\ UNCHANGED <<inputs, task, yielded, csv_files, fs, clock, files, mergeCalls,
                   merged_csv_path, transformCalls, artifacts, notices, runNo,
                   firstFiles>>

\* process_folder, lines 159-164: one task per discovered file is submitted
Submit ==
    /\ pc = "submit"
    /\ task' = [filename \in discovered |-> "pending"]
    /\ yielded' = {}
    /\ csv_files' = <<>>
    /\ pc' = "collect"
    /\ UNCHANGED <<inputs, fs, clock, files, mergeCalls, merged_csv_path,
                   transformCalls, artifacts, notices, runNo, firstFiles>>

\* a worker runs convert_tdms_to_csv, lines 21-26: TdmsFile.read raises, or
\* to_csv opens (truncates) the output file
TaskStart(f) ==
    /\ f \in DOMAIN task
    /\ task[f] = "pending"
    /\ IF capture[f].ok
       THEN /\ task' = [task EXCEPT ![f] = "writing"]
            /\ fs' = WriteFile(fs, csv_path_of(f), NoData, clock)
       ELSE /\ task' = [task EXCEPT ![f] = "failed"]
            /\ fs' = fs
    /\ UNCHANGED <<inputs, pc, yielded, csv_files, clock, files, mergeCalls,
                   merged_csv_path, transformCalls, artifacts, notices, runNo,
                   firstFiles>>

\* the contents a worker's write may leave: its own table, or, when another
\* worker wrote the same file since this one opened it, possibly a mixture
WriteOutcomes(f) ==
    LET mine == to_csv(as_dataframe(f, capture[f].cols, capture[f].rows))
    IN  IF fs[csv_path_of(f)].content = NoData
        THEN {mine}
        ELSE {mine, Garbled}

\* a worker finishes convert_tdms_to_csv, lines 26-28: the table is written
\* and the path returned
TaskFinish(f) ==
    /\ f \in DOMAIN task
    /\ task[f] = "writing"
    /\ \E adv \in {0, 1}, content \in WriteOutcomes(f) :
          /\ clock' = clock + adv
          /\ fs' = WriteFile(fs, csv_path_of(f), content, clock + adv)
    /\ task' = [task EXCEPT ![f] = "ok"]
    /\ UNCHANGED <<inputs, pc, yielded, csv_files, files, mergeCalls,
                   merged_csv_path, transformCalls, artifacts, notices, runNo,
                   firstFiles>>

\* a future is done
resolved(f) == task[f] \in {"ok", "failed"}

\* lines 165-169, one iteration: as_completed yields a finished future and
\* future.result() returns its path or raises its exception
Collect(f) ==
    /\ pc = "collect"
    /\ f \in DOMAIN task \ yielded
    /\ resolved(f)
    /\ yielded' = yielded \cup {f}
    /\ IF task[f] = "ok"
       THEN /\ csv_files' = Append(csv_files, csv_path_of(f))
            /\ pc' = "collect"
       ELSE /\ csv_files' = csv_files
            /\ pc' = "unwind"
    /\ UNCHANGED <<inputs, task, fs, clock, files, mergeCalls, merged_csv_path,
                   transformCalls, artifacts, notices, runNo, firstFiles>>

\* line 165: as_completed has yielded every future
as_completed_exhausted == yielded = DOMAIN task

\* the statements after the loop run inside it, after the first result
merge_inside_loop == yielded # {}

\* lines 159-169: the loop is exhausted and the with block is left, its
\* executor having waited for every task
pool_left ==
    /\ as_completed_exhausted
    /\ \A f \in DOMAIN task : resolved(f)

\* control reaches line 171
ExitPool ==
    /\ pc = "collect"
    /\ pool_left
    /\ pc' = "merge"
    /\ UNCHANGED <<inputs, task, yielded, csv_files, fs, clock, files, mergeCalls,
                   merged_csv_path, transformCalls, artifacts, notices, runNo,
                   firstFiles>>

\* the with block of line 159 is left by an exception: the executor waits
\* for every task, then the exception leaves process_folder and main
Unwind ==
    /\ pc = "unwind"
    /\ \A f \in DOMAIN task : resolved(f)
    /\ pc' = "crashed"
    /\ UNCHANGED <<inputs, task, yielded, csv_files, fs, clock, files, mergeCalls,
                   merged_csv_path, transformCalls, artifacts, notices, runNo,
                   firstFiles>>

\* line 172: should_merge and csv_files
merge_requested == should_merge /\ csv_files # <<>>

\* lines 171-174: the converted files are sorted by modification time and
\* merged
MergeStage ==
    /\ pc = "merge"
    /\ IF merge_requested
       THEN LET csv_files_sorted == sorted_by_mtime(csv_files, fs)
                m == merge_csv_files(csv_files_sorted, fs, clock)
            IN  /\ files' = csv_files_sorted
                /\ mergeCalls' = mergeCalls + 1
                /\ merged_csv_path' = m.ret
                /\ fs' = m.disk
       ELSE /\ merged_csv_path' = EmptyStr
            /\ UNCHANGED <<files, mergeCalls, fs>>
    /\ pc' = "transform"
    /\ UNCHANGED <<inputs, task, yielded, csv_files, clock, transformCalls,
                   artifacts, notices, runNo, firstFiles>>

\* line 177: should_merge and merged_csv_path
transform_merged == should_merge /\ Truthy(merged_csv_path)

\* else in place of elif not should_merge
transform_each_file_else == TRUE

\* line 179: elif not should_merge
transform_each_file == ~should_merge

\* lines 176-181: the files perform_transformation is called with
transform_targets ==
    IF ~transform_requested THEN <<>>
    ELSE IF transform_merged THEN <<merged_csv_path>>
    ELSE IF transform_each_file THEN csv_files
    ELSE <<>>

\* the effect of calling perform_transformation on each of paths in turn;
\* an exception ends the run
Dispatch(paths) ==
    LET t == transform_each(paths, channels, algorithm, fs)
    IN  /\ transformCalls' = transformCalls \o t.calls
        /\ artifacts' = artifacts \o t.effect.artifacts
        /\ notices' = notices \o t.effect.notices
        /\ pc' = IF t.effect.raised THEN "crashed" ELSE "done"

\* lines 176-181
TransformStage ==
    /\ pc = "transform"
    /\ Dispatch(transform_targets)
    /\ UNCHANGED <<inputs, task, yielded, csv_files, fs, clock, files, mergeCalls,
                   merged_csv_path, runNo, firstFiles>>

\* main, line 208: the one file is converted; a decode error ends the run
Convert ==
    /\ pc = "convert"
    /\ \E f \in discovered :
          IF capture[f].ok
          THEN \E adv \in {0, 1} :
                  /\ clock' = clock + adv
                  /\ fs' = WriteFile(fs, csv_path_of(f),
                                to_csv(as_dataframe(f, capture[f].cols, capture[f].rows)),
                                clock + adv)
                  /\ csv_files' = <<csv_path_of(f)>>
                  /\ pc' = "file_transform"
          ELSE /\ pc' = "crashed"
               /\ UNCHANGED <<clock, fs, csv_files>>
    /\ UNCHANGED <<inputs, task, yielded, files, mergeCalls, merged_csv_path,
                   transformCalls, artifacts, notices, runNo, firstFiles>>

\* the call made whenever --transform is true
file_transform_targets_unchecked == IF transform THEN csv_files ELSE <<>>

\* lines 209-210: the file perform_transformation is called with, if any
file_transform_targets == IF transform_requested THEN csv_files ELSE <<>>

\* main, lines 209-210
FileTransform ==
    /\ pc = "file_transform"
    /\ Dispatch(file_transform_targets)
    /\ UNCHANGED <<inputs, task, yielded, csv_files, fs, clock, files, mergeCalls,
                   merged_csv_path, runNo, firstFiles>>

Next ==
    \/ Main
    \/ Submit
    \/ \E f \in DirEntries : TaskStart(f)
    \/ \E f \in DirEntries : TaskFinish(f)
    \/ \E f \in DirEntries : Collect(f)
    \/ ExitPool
    \/ Unwind
    \/ MergeStage
    \/ TransformStage
    \/ Convert
    \/ FileTransform

Spec == Init /\ [][Next]_vars

----------------------------------------------------------------------------
\* The program run a second time on the same input, with a fresh output
\* folder

Rerun ==
    /\ pc \in {"done", "crashed"}
    /\ runNo = 1
    /\ runNo' = 2
    /\ firstFiles' = IF mergeCalls > 0 THEN <<files>> ELSE <<>>
    /\ pc' = "main"
    /\ task' = <<>>
    /\ yielded' = {}
    /\ csv_files' = <<>>
    /\ fs' = <<>>
    /\ clock' = 0
    /\ files' = <<>>
    /\ mergeCalls' = 0
    /\ merged_csv_path' = EmptyStr
    /\ transformCalls' = <<>>
    /\ artifacts' = <<>>
    /\ notices' = <<>>
    /\ UNCHANGED inputs

NextRerun == Next \/ Rerun

SpecRerun == Init /\ [][NextRerun]_vars

----------------------------------------------------------------------------
\* merge_csv_files called on its own, with any list of files

\* the i-th file of the list
In(i) == <<"in", i>>

\* what a file of the list may be: missing, holding nothing at all, holding
\* text that does not parse, holding a header line only, or holding a header
\* line and n rows of k columns; the header of a file with rows holds decoded
\* channel names, or the positional names in reverse order
Kinds ==
    [kind : {"missing", "no_data", "garbled"}, style : {"ai"}, k : {0}, n : {0}]
    \cup
    [kind : {"csv"}, style : {"ai"}, k : 1..MaxCols, n : {0}]
    \cup
    [kind : {"csv"}, style : {"ai", "CHrev"}, k : 1..MaxCols, n : 1..MaxRows]

Header(style, k) ==
    [c \in 1..k |-> IF style = "ai" THEN <<"ai", c - 1>> ELSE CH(k - c)]

\* the content of the i-th file, of kind d
Content(i, d) ==
    CASE d.kind = "no_data" -> NoData
      [] d.kind = "garbled" -> Garbled
      [] OTHER -> Csv(Header(d.style, d.k),
                      [r \in 1..d.n |-> [c \in 1..d.k |-> Cell(In(i), r, c)]])

MergeInit ==
    /\ mode = "merge"
    /\ listing = {}
    /\ capture = <<>>
    /\ should_merge = TRUE
    /\ transform = FALSE
    /\ channels = <<>>
    /\ algorithm = 0
    /\ pc = "merge_call"
    /\ task = <<>>
    /\ yielded = {}
    /\ csv_files = <<>>
    /\ \E len \in 0..MaxLen :
          /\ files = [i \in 1..len |-> In(i)]
          /\ \E held \in [1..len -> Kinds] :
                fs = [p \in {In(i) : i \in {j \in 1..len : held[j].kind # "missing"}} |->
                        [content |-> Content(p[2], held[p[2]]), mtime |-> 0]]
    /\ clock = 0
    /\ mergeCalls = 0
    /\ merged_csv_path = EmptyStr
    /\ transformCalls = <<>>
    /\ artifacts = <<>>
    /\ notices = <<>>
    /\ runNo = 1
    /\ firstFiles = <<>>

\* merge_csv_files, lines 30-66
MergeCall ==
    /\ pc = "merge_call"
    /\ LET m == merge_csv_files(files, fs, clock)
       IN  /\ merged_csv_path' = m.ret
           /\ fs' = m.disk
    /\ mergeCalls' = mergeCalls + 1
    /\ pc' = "merge_returned"
    /\ UNCHANGED <<inputs, task, yielded, csv_files, clock, files, transformCalls,
                   artifacts, notices, runNo, firstFiles>>

MergeSpec == MergeInit /\ [][MergeCall]_vars

----------------------------------------------------------------------------
\* Properties of the batch stage and of the pipeline

\* the discovered files whose decode succeeds
decodable == {f \in discovered : capture[f].ok}

\* the rows of a set of capture files, summed
RECURSIVE RowsOf(_)
RowsOf(S) ==
    IF S = {} THEN 0
    ELSE LET f == CHOOSE x \in S : TRUE
         IN  capture[f].rows + RowsOf(S \ {f})

\* C1: the batch stage of a directory run never ends by an exception, and
\* once it is over the result list holds exactly the output paths of the
\* files that decode: N - f of them, none of a failed file.
C1_FailureIsolation ==
    mode = "dir" =>
        /\ pc # "unwind"
        /\ pc \in {"merge", "transform", "done", "crashed"} =>
              /\ Len(csv_files) = Cardinality(discovered) - Cardinality(discovered \ decodable)
              /\ \A i \in DOMAIN csv_files :
                    \E f \in decodable : csv_files[i] = csv_path_of(f)

\* C2: in directory mode, once control has reached the merge stage, or
\* merge_csv_files or perform_transformation has been called, every
\* submitted conversion task has succeeded or failed.
C2_StagesAfterAllTasks ==
    (/\ mode = "dir"
     /\ \/ pc \in {"merge", "transform", "done"}
        \/ mergeCalls > 0
        \/ transformCalls # <<>>)
    => /\ DOMAIN task = discovered
       /\ \A f \in DOMAIN task : task[f] \in {"ok", "failed"}

\* two tasks were submitted, the merge ran and a transform was dispatched
C2_Witness ==
    /\ mode = "dir"
    /\ Cardinality(DOMAIN task) >= 2
    /\ mergeCalls > 0
    /\ transformCalls # <<>>

\* the list is in ascending order of modification time
AscendingMtime(paths) ==
    \A i, j \in DOMAIN paths : i < j => fs[paths[i]].mtime <= fs[paths[j]].mtime

\* C3: the list handed to merge is in ascending order of modification time,
\* and a second run on the same input hands merge the same list as the
\* first, whatever the order in which the workers of each run finished.
C3_MergeOrderDeterministic ==
    /\ (pc = "transform" /\ mergeCalls > 0) => AscendingMtime(files)
    /\ (runNo = 2 /\ mergeCalls > 0 /\ firstFiles # <<>>) => files = firstFiles[1]

\* C4: a directory run with merge requested, in which one file fails to
\* decode and another decodes to a non-empty table, ends with the merged file
\* written, its rows as many as the rows of the decoded files together.
C4_MergeDespiteFailure ==
    (/\ mode = "dir"
     /\ should_merge
     /\ pc \in {"done", "crashed"}
     /\ discovered \ decodable # {}
     /\ \E f \in decodable : capture[f].rows > 0)
    => /\ mergeCalls > 0
       /\ merged_filename \in DOMAIN fs
       /\ Len(fs[merged_filename].content.rows) = RowsOf(decodable)
       /\ \A f \in discovered \ decodable : csv_path_of(f) \notin DOMAIN fs

\* C10: in a directory run with merge requested, as long as the merged path
\* is empty (no merge ran, or it returned None), perform_transformation has
\* not been called on anything.
C10_NoTransformWithoutMerged ==
    (mode = "dir" /\ should_merge /\ ~Truthy(merged_csv_path))
    => transformCalls = <<>>

\* a finished directory run with a transform requested, in which files were
\* converted and merge_csv_files returned None
C10_Witness ==
    /\ mode = "dir"
    /\ should_merge
    /\ transform_requested
    /\ pc = "done"
    /\ csv_files # <<>>
    /\ mergeCalls > 0
    /\ merged_csv_path = None

----------------------------------------------------------------------------
\* Properties of merge_csv_files

\* the file at path can be read and holds at least one row
Survives(path) ==
    /\ path \in DOMAIN fs
    /\ fs[path].content.kind = "csv"
    /\ Len(fs[path].content.rows) > 0

\* the surviving files of the list, in the order of the list
Survivors == SelectSeq(files, LAMBDA path : Survives(path))

\* the table held by a surviving file
TableOf(path) == fs[path].content

\* the merged table written
Merged == fs[merged_filename].content

\* the rows of the surviving tables before the i-th
RECURSIVE RowsBefore(_)
RowsBefore(i) ==
    IF i <= 1 THEN 0 ELSE RowsBefore(i - 1) + Len(TableOf(Survivors[i - 1]).rows)

MergeReturned == pc = "merge_returned"

\* C5: the merged table holds the rows of the surviving tables, table after
\* table in the order of the list and each table's rows in their own order:
\* its row count is the sum of theirs, and row r of the i-th surviving table
\* is the merged row number (rows of the tables before it) + r.
C5_MergeConcatenatesInOrder ==
    (MergeReturned /\ Survivors # <<>>) =>
        /\ merged_csv_path = merged_filename
        /\ merged_filename \in DOMAIN fs
        /\ Len(Merged.rows) = RowsBefore(Len(Survivors) + 1)
        /\ \A i \in DOMAIN Survivors :
              LET t == TableOf(Survivors[i])
              IN  \A r \in DOMAIN t.rows : \A c \in DOMAIN t.header :
                     Merged.rows[RowsBefore(i) + r][c] = t.rows[r][c]

\* a list whose first and third files survive with two rows each and whose
\* second does not
C5_Witness ==
    /\ MergeReturned
    /\ Len(files) = 3
    /\ Len(Survivors) = 2
    /\ ~Survives(files[2])
    /\ \A i \in DOMAIN Survivors : Len(TableOf(Survivors[i]).rows) = 2

C8_SkippedFilesLeaveNoTrace ==
    MergeReturned =>
        LET alone == merge_csv_files(Survivors, fs, clock)
        IN  /\ merged_csv_path = alone.ret
            /\ Truthy(merged_csv_path) =>
                  fs[merged_filename] = alone.disk[merged_filename]

\* a list of a file that holds a header line only, wider than the surviving
\* file that follows it
C8_Witness ==
    /\ MergeReturned
    /\ Len(files) = 2
    /\ files[1] \in DOMAIN fs
    /\ TableOf(files[1]).kind = "csv"
    /\ ~Survives(files[1])
    /\ Survives(files[2])
    /\ Len(TableOf(files[1]).header) > Len(TableOf(files[2]).header)
    /\ Truthy(merged_csv_path)

\* C9: when no file of the list survives, merge_csv_files returns None and
\* the output folder holds no merged file.
C9_NothingToMerge ==
    (MergeReturned /\ Survivors = <<>>) =>
        /\ merged_csv_path = None
        /\ merged_filename \notin DOMAIN fs

\* a list of a header-only file and an unparsable one
C9_Witness ==
    /\ MergeReturned
    /\ Len(files) = 2
    /\ Survivors = <<>>
    /\ \E i \in DOMAIN files : files[i] \in DOMAIN fs /\ TableOf(files[i]).kind = "csv"
    /\ \E i \in DOMAIN files : files[i] \in DOMAIN fs /\ TableOf(files[i]).kind = "garbled"

----------------------------------------------------------------------------
\* perform_transformation called on its own, with any file, channel list and
\* algorithm number

\* channel names a caller may ask for
ChannelNames == {CH(0), CH(1), <<"ai", 0>>}

\* --algorithm, line 190: choices=range(1, 28)
Algorithms == 1..27

RECURSIVE SeqsUpTo(_, _)
SeqsUpTo(S, n) ==
    IF n = 0 THEN {<<>>}
    ELSE LET shorter == SeqsUpTo(S, n - 1)
         IN  shorter \cup {Append(q, x) : q \in shorter, x \in S}

TransformInit ==
    /\ mode = "transform"
    /\ listing = {}
    /\ capture = <<>>
    /\ should_merge = FALSE
    /\ transform = TRUE
    /\ channels \in SeqsUpTo(ChannelNames, MaxChans) \ {<<>>}
    /\ algorithm \in Algorithms
    /\ pc = "transform_call"
    /\ task = <<>>
    /\ yielded = {}
    /\ csv_files = <<In(1)>>
    /\ \E d \in Kinds :
          fs = [p \in (IF d.kind = "missing" THEN {} ELSE {In(1)}) |->
                  [content |-> Content(1, d), mtime |-> 0]]
    /\ clock = 0
    /\ files = <<>>
    /\ mergeCalls = 0
    /\ merged_csv_path = EmptyStr
    /\ transformCalls = <<>>
    /\ artifacts = <<>>
    /\ notices = <<>>
    /\ runNo = 1
    /\ firstFiles = <<>>

\* perform_transformation, lines 141-155
TransformCall ==
    /\ pc = "transform_call"
    /\ LET t == perform_transformation(csv_files[1], channels, algorithm, fs)
       IN  /\ transformCalls' = <<csv_files[1]>>
           /\ artifacts' = t.artifacts
           /\ notices' = t.notices
           /\ pc' = IF t.raised THEN "transform_raised" ELSE "transform_returned"
    /\ UNCHANGED <<inputs, task, yielded, csv_files, fs, clock, files, mergeCalls,
                   merged_csv_path, runNo, firstFiles>>

TransformSpec == TransformInit /\ [][TransformCall]_vars

----------------------------------------------------------------------------
\* Properties of perform_transformation

\* the file holds a table with a column named channel
HasChannel(path, channel) ==
    /\ path \in DOMAIN fs
    /\ fs[path].content.kind = "csv"
    /\ \E c \in DOMAIN fs[path].content.header : fs[path].content.header[c] = channel

TransformOver == pc \in {"transform_returned", "transform_raised"}

\* C11: a call of perform_transformation with an algorithm number outside
\* 1..5 returns without an exception, saves no image, and prints one
\* not-implemented notice per requested channel, in the order of the list,
\* whether or not the file holds the channel.
C11_UnsupportedAlgorithmIsNoOp ==
    (TransformOver /\ algorithm \notin 1..5) =>
        /\ pc = "transform_returned"
        /\ artifacts = <<>>
        /\ notices = channels
        /\ DOMAIN fs \subseteq {In(1)}

\* algorithm 6 on three channels, the second of which the file does not hold
C11_Witness ==
    /\ TransformOver
    /\ algorithm = 6
    /\ Len(channels) = 3
    /\ HasChannel(csv_files[1], channels[1])
    /\ ~HasChannel(csv_files[1], channels[2])
    /\ notices = channels

\* the first channel of the list the file does not hold, or one past the
\* end of the list when it holds them all
FirstMissing ==
    LET miss == {i \in DOMAIN channels : ~HasChannel(csv_files[1], channels[i])}
    IN  IF miss = {} THEN Len(channels) + 1
        ELSE CHOOSE i \in miss : \A j \in miss : i <= j

\* C18: with a supported algorithm, a call of perform_transformation whose
\* i-th channel is the first the file does not hold ends by an exception
\* having saved exactly the images of channels 1 .. i-1, in this order, and
\* nothing for channel i or any later one.
C18_FailureAbortsLoop ==
    (TransformOver /\ algorithm \in 1..5) =>
        /\ pc = (IF FirstMissing <= Len(channels)
                 THEN "transform_raised" ELSE "transform_returned")
        /\ artifacts = [j \in 1..(FirstMissing - 1) |->
                           <<csv_files[1], channels[j], Tag(algorithm)>>]
        /\ notices = <<>>

\* three channels, of which the file holds the first and the third but not
\* the second
C18_Witness ==
    /\ TransformOver
    /\ algorithm = 2
    /\ Len(channels) = 3
    /\ HasChannel(csv_files[1], channels[1])
    /\ ~HasChannel(csv_files[1], channels[2])
    /\ HasChannel(csv_files[1], channels[3])
    /\ Len(artifacts) = 1

----------------------------------------------------------------------------
\* Properties of the names, of the batch result and of the dispatch

\* the space-stripped name with its last token, the capture extension,
\* replaced by the tabular extension
ExpectedCsvName(filename) ==
    LET base == sanitize_filename(filename)
    IN  [i \in DOMAIN base |-> IF i = Len(base) THEN ".csv" ELSE base[i]]

\* C12: the file a worker has written for a discovered capture file is named
\* by the space-stripped name with its trailing extension replaced by .csv,
\* and every path of the batch result ends in .csv.
C12_OutputNamedCsv ==
    mode = "dir" =>
        /\ \A f \in DOMAIN task :
              task[f] = "ok" => ExpectedCsvName(f) \in DOMAIN fs
        /\ \A i \in DOMAIN csv_files :
              csv_files[i][Len(csv_files[i])] = ".csv"

\* C13: no two workers are writing the same file at the same time, and the
\* batch result holds no path twice.
C13_ExclusiveOutputs ==
    mode = "dir" =>
        /\ \A f, g \in DOMAIN task :
              (f # g /\ task[f] = "writing" /\ task[g] = "writing")
              => csv_path_of(f) # csv_path_of(g)
        /\ \A i, j \in DOMAIN csv_files :
              i # j => csv_files[i] # csv_files[j]

\* the calls of perform_transformation on path
CallsOn(path) == Cardinality({j \in DOMAIN transformCalls : transformCalls[j] = path})

\* the batch stage is over and every discovered file was decoded
BatchComplete ==
    /\ mode = "dir"
    /\ pc \in {"done", "crashed"}
    /\ decodable = discovered
    /\ Len(csv_files) = Cardinality(discovered)

C15_FileModeSkipsMerge ==
    mode = "file" =>
        /\ pc \notin {"submit", "collect", "unwind", "merge", "transform"}
        /\ mergeCalls = 0
        /\ merged_filename \notin DOMAIN fs
        /\ Len(csv_files) <= 1
        /\ (pc \in {"done", "crashed"} /\ csv_files # <<>>) =>
              /\ \E f \in discovered : csv_files = <<csv_path_of(f)>>
              /\ transformCalls = (IF transform_requested THEN csv_files ELSE <<>>)
        /\ (pc \notin {"done", "crashed"} \/ csv_files = <<>>) => transformCalls = <<>>

\* a finished file-mode run with --merge true in which the transform saved
\* an image
C15_Witness ==
    /\ mode = "file"
    /\ should_merge
    /\ pc = "done"
    /\ Len(transformCalls) = 1
    /\ artifacts # <<>>

\* C16: every path of the batch result names a file that holds a table with
\* at least one row.
C16_NoEmptyTableInResult ==
    mode = "dir" =>
        \A i \in DOMAIN csv_files :
            /\ csv_files[i] \in DOMAIN fs
            /\ fs[csv_files[i]].content.kind = "csv"
            /\ Len(fs[csv_files[i]].content.rows) > 0

\* the path is neither a directory nor a capture file
InvalidPath == mode = "missing" \/ (mode = "file" /\ discovered = {})

\* C17: a run on an invalid path ends by an error, not normally, and
\* converts, merges and transforms nothing.
C17_InvalidPathIsError ==
    InvalidPath =>
        /\ pc \in {"main", "crashed"}
        /\ task = <<>>
        /\ fs = <<>>
        /\ mergeCalls = 0
        /\ transformCalls = <<>>

====
